---------------------------- MODULE Spec2Model ----------------------------
(***************************************************************************)
(* A model of the grain-boundary builder (src/grain-boundary):             *)
(*   collision_removal.py  the minimum-distance predicate, the region      *)
(*                         filters and the five boundary passes;           *)
(*   structure.py          Structure.reconcile and grow_to_supercell;      *)
(*   config.py             the loader of the minimum-distance table.       *)
(*                                                                         *)
(* Arithmetic.  The program computes in floating point; the model computes *)
(* exactly, on a grid.  A fractional (direct) coordinate is the integer    *)
(* numerator of a fraction over FracDen, and a cartesian coordinate is the *)
(* numerator of a length over FracDen, so that for an integer lattice      *)
(* cartesian = direct . coordinates holds on numerators.  A distance is    *)
(* compared with a threshold through the squares.  Rounding of the         *)
(* floating-point operations is not modelled.                              *)
(***************************************************************************)
EXTENDS Integers, Sequences, FiniteSets, TLC

VARIABLES
    min_dist_dict,    \* the minimum-distance table: ordered pair of elements -> threshold
    reg,              \* SpecRegion: the atom sequence the caller holds
    last,             \* SpecRegion: the last call [fn, a, b, ret]
    coordinates,      \* Structure.coordinates: 3x3 matrix, one lattice vector per row
    direct,           \* Structure.direct: atoms, fractional positions
    cartesian,        \* Structure.cartesian: atoms, absolute positions
    pc,               \* position of the running operation
    err,              \* the exception the last operation raised, or "none"
    lattice_vecs,     \* grow_to_supercell: argument lattice_vecs
    max_atoms,        \* grow_to_supercell: argument max_atoms
    supercell_pos,    \* grow_to_supercell: the work queue of translation vectors
    searched_pos,     \* grow_to_supercell: the visited set
    enlarged_struct,  \* grow_to_supercell: the accumulated atoms
    popped,           \* grow_to_supercell: the translations processed (not skipped), in order
    boundary_radius,  \* remove_collision*: argument boundary_radius
    random_delete,    \* remove_collision*: argument random_delete
    before,           \* the Structure as it was when the last operation was called
    rc_before,        \* the Structure as it was when remove_collision was called
    struct_2,         \* combine_structures: the second Structure, as the call left it
    rc_passes,        \* the passes remove_collision has called: [fn, axis, n, from, to]
    ret               \* the last removal call that returned: [fn, axis, n]

vars == <<min_dist_dict, reg, last, coordinates, direct, cartesian, pc, err,
          lattice_vecs, max_atoms, supercell_pos, searched_pos,
          enlarged_struct, popped, boundary_radius, random_delete, before,
          rc_before, rc_passes, ret, struct_2>>

regionVars == <<reg, last>>
structVars == <<coordinates, direct, cartesian>>
growVars   == <<lattice_vecs, max_atoms, supercell_pos, searched_pos,
                enlarged_struct, popped>>
removeVars == <<boundary_radius, random_delete, rc_before, rc_passes, ret>>
combineVars == <<struct_2>>

-----------------------------------------------------------------------------
(* Bounds of the model. *)

\* The resolution of the fractional grid: a fractional coordinate is n / FracDen.
FracDen == 1000

\* The longest atom sequence handed to the region filters.
MaxRegLen == 3

\* The most entries of 'min_atom_dist' in the configuration file.
MaxEntries == 2

\* The most atoms of a Structure handed to the boundary passes.
MaxRemoveAtoms == 3

\* The most atoms of a constructed Structure handed to reconcile, transform
\* and combine_structures, and the most atoms of a combined Structure.
MaxStructAtoms == 2
MaxCombinedAtoms == 3

\* The claims about grow_to_supercell look at the integer translations with
\* every component in -MaxShift..MaxShift.
MaxShift == 4

-----------------------------------------------------------------------------
(* Atoms, vectors and matrices. *)

Elements == {"X", "Y"}

\* The order of the element symbols (numpy sorts the byte strings).
ElemRank(e) == IF e = "X" THEN 1 ELSE 2

Atom(p, e) == [position |-> p, element |-> e]

VAdd(u, v) == <<u[1] + v[1], u[2] + v[2], u[3] + v[3]>>
VSub(u, v) == <<u[1] - v[1], u[2] - v[2], u[3] - v[3]>>
VScale(k, v) == <<k * v[1], k * v[2], k * v[3]>>

\* np.dot(v, M) for a row vector v and a 3x3 matrix M given by its rows.
VecMat(v, M) ==
    <<v[1] * M[1][1] + v[2] * M[2][1] + v[3] * M[3][1],
      v[1] * M[1][2] + v[2] * M[2][2] + v[3] * M[3][2],
      v[1] * M[1][3] + v[2] * M[2][3] + v[3] * M[3][3]>>

\* The square of np.linalg.norm(v).
NormSq(v) == v[1] * v[1] + v[2] * v[2] + v[3] * v[3]

\* The atoms of s with every position moved by v (s['position'] += v).
ShiftAll(s, v) == [i \in 1..Len(s) |-> Atom(VAdd(s[i].position, v), s[i].element)]

\* The elements of a sequence as a set.
Range(s) == {s[i] : i \in 1..Len(s)}

-----------------------------------------------------------------------------
(* collision_removal.py: the predicate and the two region filters. *)

\* dist >= min_dist for the threshold stored under key k; both are >= 0.
FarEnough(tbl, k, atom_1, atom_2) ==
    NormSq(VSub(atom_1.position, atom_2.position)) >= tbl[k] * tbl[k]

\* The key (atom_1, atom_2) is tried first, then (atom_2, atom_1); no key: safe.
apart_by_safe_distance(tbl, atom_1, atom_2) ==
    LET k1 == <<atom_1.element, atom_2.element>>
        k2 == <<atom_2.element, atom_1.element>>
    IN  IF k1 \in DOMAIN tbl THEN FarEnough(tbl, k1, atom_1, atom_2)
        ELSE IF k2 \in DOMAIN tbl THEN FarEnough(tbl, k2, atom_1, atom_2)
        ELSE TRUE

\* test[is_safe] with is_safe = map(lambda x: apart_by_safe_distance(tbl, x, atm), test)
KeepSafe(tbl, test, atm) ==
    SelectSeq(test, LAMBDA x : apart_by_safe_distance(tbl, x, atm))

RECURSIVE WithinLoop(_, _, _)
\* The while loop of remove_collision_within_region from index i (0-based).
WithinLoop(r, tbl, i) ==
    IF i < Len(r) - 1
    THEN LET prev == SubSeq(r, 1, i + 1)
             atm  == r[i + 1]
             test == SubSeq(r, i + 2, Len(r))
         IN  WithinLoop(prev \o KeepSafe(tbl, test, atm), tbl, i + 1)
    ELSE r

RECURSIVE WithinLoopShort(_, _, _)
WithinLoopShort(r, tbl, i) ==
    IF i < Len(r) - 2
    THEN LET prev == SubSeq(r, 1, i + 1)
             atm  == r[i + 1]
             test == SubSeq(r, i + 2, Len(r))
         IN  WithinLoopShort(prev \o KeepSafe(tbl, test, atm), tbl, i + 1)
    ELSE r

remove_collision_within_region_short(r, tbl) == WithinLoopShort(r, tbl, 0)

remove_collision_within_region_all_pairs(r, tbl) ==
    LET keep == {i \in 1..Len(r) :
                    \A j \in 1..(i - 1) : apart_by_safe_distance(tbl, r[i], r[j])}
        idx  == SelectSeq([i \in 1..Len(r) |-> i], LAMBDA i : i \in keep)
    IN  [k \in 1..Len(idx) |-> r[idx[k]]]

remove_collision_within_region(r, tbl) == WithinLoop(r, tbl, 0)

RECURSIVE BetweenLoop(_, _, _, _)
\* The for loop of remove_collision_between_regions from the j-th atom of reg_1.
BetweenLoop(r1, r2, tbl, j) ==
    IF j > Len(r1) \/ Len(r2) <= 0
    THEN r2
    ELSE BetweenLoop(r1, KeepSafe(tbl, r2, r1[j]), tbl, j + 1)

remove_collision_between_regions_first(r1, r2, tbl) ==
    IF Len(r1) = 0 THEN r2 ELSE KeepSafe(tbl, r2, r1[1])

remove_collision_between_regions(r1, r2, tbl) == BetweenLoop(r1, r2, tbl, 1)

-----------------------------------------------------------------------------
(* config.py: the loader of the minimum-distance table. *)

RECURSIVE LoadMinAtomDist(_, _, _)
\* The for loop of from_gbconf_file over the entries [atm_1, atm_2, dist] of
\* 'min_atom_dist' from entry i: each is stored under its ordered key.
LoadMinAtomDist(entries, tbl, i) ==
    IF i > Len(entries) THEN tbl
    ELSE LET e == entries[i]
             k == <<e[1], e[2]>>
         IN  LoadMinAtomDist(entries,
                 [x \in DOMAIN tbl \cup {k} |-> IF x = k THEN e[3] ELSE tbl[x]],
                 i + 1)

\* Configuration.min_atom_dist after loading: it starts as the empty dict.
from_gbconf_file(entries) == LoadMinAtomDist(entries, <<>>, 1)


-----------------------------------------------------------------------------
(* structure.py: matrices, sorting and Structure.reconcile. *)

Identity3 == <<<<1, 0, 0>>, <<0, 1, 0>>, <<0, 0, 1>>>>

Trace3(M) == M[1][1] + M[2][2] + M[3][3]

Det3(M) ==
      M[1][1] * (M[2][2] * M[3][3] - M[2][3] * M[3][2])
    - M[1][2] * (M[2][1] * M[3][3] - M[2][3] * M[3][1])
    + M[1][3] * (M[2][1] * M[3][2] - M[2][2] * M[3][1])

\* The adjugate: np.linalg.inv(M) = Adj3(M) / Det3(M).
Adj3(M) ==
    <<<<M[2][2] * M[3][3] - M[2][3] * M[3][2],
        M[1][3] * M[3][2] - M[1][2] * M[3][3],
        M[1][2] * M[2][3] - M[1][3] * M[2][2]>>,
      <<M[2][3] * M[3][1] - M[2][1] * M[3][3],
        M[1][1] * M[3][3] - M[1][3] * M[3][1],
        M[1][3] * M[2][1] - M[1][1] * M[2][3]>>,
      <<M[2][1] * M[3][2] - M[2][2] * M[3][1],
        M[1][2] * M[3][1] - M[1][1] * M[3][2],
        M[1][1] * M[2][2] - M[1][2] * M[2][1]>>>>

\* n / d to the grid (exact whenever d divides n), for d # 0.
DivGrid(n, d) == IF d > 0 THEN n \div d ELSE (0 - n) \div (0 - d)

\* np.dot(p, np.linalg.inv(M)) for a non-singular M.
VecMatInv(p, M) ==
    LET n == VecMat(p, Adj3(M))
        d == Det3(M)
    IN  <<DivGrid(n[1], d), DivGrid(n[2], d), DivGrid(n[3], d)>>

\* Lexicographic comparison of two positions.
PosLess(p, q) ==
    \/ p[1] < q[1]
    \/ p[1] = q[1] /\ p[2] < q[2]
    \/ p[1] = q[1] /\ p[2] = q[2] /\ p[3] < q[3]

\* The order of sort(order='element'): by element, ties broken by the
\* remaining field of the record, the position.
ElementOrder(a, b) ==
    \/ ElemRank(a.element) < ElemRank(b.element)
    \/ a.element = b.element /\ PosLess(a.position, b.position)

\* The order of the whole record, fields in dtype order: position, element.
RecordOrder(a, b) ==
    \/ PosLess(a.position, b.position)
    \/ a.position = b.position /\ ElemRank(a.element) < ElemRank(b.element)

\* The two orders, by name.
AtomLess(order, a, b) ==
    IF order = "element" THEN ElementOrder(a, b) ELSE RecordOrder(a, b)

RECURSIVE InsertSorted(_, _, _)
\* s, sorted by the order, with x inserted after the atoms not greater than x.
InsertSorted(s, x, order) ==
    IF s = <<>> THEN <<x>>
    ELSE IF AtomLess(order, x, Head(s)) THEN <<x>> \o s
    ELSE <<Head(s)>> \o InsertSorted(Tail(s), x, order)

RECURSIVE SortFrom(_, _, _, _)
SortFrom(s, i, acc, order) ==
    IF i > Len(s) THEN acc
    ELSE SortFrom(s, i + 1, InsertSorted(acc, s[i], order), order)

\* array.sort(order='element')
sort_by_element(s) == SortFrom(s, 1, <<>>, "element")

RECURSIVE DropRepeats(_)
\* A sorted sequence without its repeated atoms.
DropRepeats(s) ==
    IF Len(s) <= 1 THEN s
    ELSE IF s[1] = s[2] THEN DropRepeats(Tail(s))
    ELSE <<s[1]>> \o DropRepeats(Tail(s))

\* np.unique(array): the distinct records, sorted.
np_unique(s) == DropRepeats(SortFrom(s, 1, <<>>, "record"))

\* array['position'] = np.dot(array['position'], M)
ToCartesian(s, M) == [i \in 1..Len(s) |-> Atom(VecMat(s[i].position, M), s[i].element)]

\* array['position'] = np.dot(array['position'], np.linalg.inv(M))
ToDirect(s, M) == [i \in 1..Len(s) |-> Atom(VecMatInv(s[i].position, M), s[i].element)]

Structure(c, d, x) == [coordinates |-> c, direct |-> d, cartesian |-> x]

reconcile_sort_only(st, according_to) ==
    IF according_to = "C"
    THEN Structure(st.coordinates, st.direct, sort_by_element(st.cartesian))
    ELSE Structure(st.coordinates, sort_by_element(st.direct), st.cartesian)

\* Structure.reconcile(according_to) on the Structure st.
reconcile(st, according_to) ==
    IF according_to = "C"
    THEN LET x == sort_by_element(st.cartesian)
         IN  Structure(st.coordinates,
                       ToDirect(x, st.coordinates),
                       x)
    ELSE LET d == sort_by_element(st.direct)
         IN  Structure(st.coordinates,
                       d,
                       ToCartesian(d, st.coordinates))

\* Structure.__init__ with scaling 1: direct as given, cartesian derived.
NewStructure(c, atoms) ==
    Structure(c, atoms, ToCartesian(atoms, c))

Transpose(M) == [i \in 1..3 |-> [j \in 1..3 |-> M[j][i]]]

\* np.dot(A, B) for two 3x3 matrices.
MatMul(A, B) == [i \in 1..3 |-> VecMat(A[i], B)]

\* Structure.transform(trans_mat) on the Structure st (the viewing angles,
\* which no atom depends on, are left out).
transform(st, trans_mat) ==
    reconcile(Structure(MatMul(st.coordinates, Transpose(trans_mat)),
                        st.direct, st.cartesian), "D")

\* direct['position'][:, 2] /= 2.0, then += offset: to the grid.
SqueezeC(s, offset) ==
    [i \in 1..Len(s) |->
        Atom(<<s[i].position[1], s[i].position[2],
               DivGrid(s[i].position[3], 2) + offset>>, s[i].element)]

\* Structure.combine_structures(struct_1, struct_2), first and second being
\* the two arguments: the Structure returned (the first, changed in place)
\* and the second as the call leaves it.
combine_structures(first, second) ==
    LET d_1 == SqueezeC(first.direct, 0)
        d_2 == SqueezeC(second.direct, DivGrid(FracDen, 2))
        c_1 == [first.coordinates EXCEPT ![3] = VScale(2, @)]
    IN  [struct_1 |-> reconcile(Structure(c_1, d_1 \o d_2, first.cartesian), "D"),
         struct_2 |-> Structure(second.coordinates, d_2, second.cartesian)]

-----------------------------------------------------------------------------
(* structure.py: grow_to_supercell.                                        *)
(*                                                                         *)
(* The inverse of lattice_vecs + 1e-5 * identity is kept exact: with       *)
(* e = 1e-5 and M = lattice_vecs,                                          *)
(*     adj(M + e I) = adj(M) + e (tr(M) I - M) + e^2 I,                    *)
(*     det(M + e I) = det(M) + e tr(adj(M)) + e^2 tr(M) + e^3,             *)
(* so a converted coordinate is a quotient of two polynomials in e with    *)
(* integer coefficients.  Its sign is the sign of the first non-zero       *)
(* coefficient, because the coefficients of the model's inputs stay below  *)
(* 1 / e = 10^5 times the step between two values of the leading one.      *)
(* The position stored in the result is the converted position to the      *)
(* grid, n0 / d0: the part in e is below the grid's resolution.            *)
(***************************************************************************)

supercell_pos_seeds ==
    <<<<0, 0, 0>>, <<1, 0, 0>>, <<0, 1, 0>>, <<0, 0, 1>>, <<-1, 0, 0>>,
      <<0, -1, 0>>, <<0, 0, -1>>>>

search_dirs ==
    <<<<1, 0, 0>>, <<0, 1, 0>>, <<0, 0, 1>>, <<-1, 0, 0>>, <<0, -1, 0>>,
      <<0, 0, -1>>, <<1, 1, 0>>, <<1, -1, 0>>, <<-1, 1, 0>>, <<0, 1, 1>>,
      <<0, 1, -1>>, <<0, -1, 1>>, <<1, 0, 1>>, <<1, 0, -1>>, <<-1, 0, 1>>,
      <<1, 1, 1>>, <<-1, -1, -1>>, <<-1, -1, 1>>, <<-1, 1, -1>>, <<1, -1, -1>>>>

\* tr(M) I - M
TraceMinus(M) ==
    [i \in 1..3 |-> [j \in 1..3 |->
        (IF i = j THEN Trace3(M) ELSE 0) - M[i][j]]]

\* np.linalg.inv(lattice_vecs + np.identity(3) * 1e-5): the coefficients in e
\* of the adjugate (a0, a1; that of e^2 is the identity) and of the determinant.
new_coord_inv(M) ==
    [a0 |-> Adj3(M), a1 |-> TraceMinus(M),
     det |-> <<Det3(M), Trace3(Adj3(M)), Trace3(M), 1>>]

\* np.dot(p, new_coord_inv): per coordinate, the coefficients in e of the
\* numerator, over the determinant.
ConvertToTarget(p, inv) ==
    LET n0 == VecMat(p, inv.a0)
        n1 == VecMat(p, inv.a1)
    IN  [num |-> [k \in 1..3 |-> <<n0[k], n1[k], p[k], 0>>], det |-> inv.det]

\* The sign (-1, 0, 1) of c[1] + c[2] e + c[3] e^2 + c[4] e^3 at e = 1e-5.
SignEps(c) ==
    LET nz == {i \in 1..Len(c) : c[i] # 0}
    IN  IF nz = {} THEN 0
        ELSE LET i == CHOOSE x \in nz : \A y \in nz : x <= y
             IN  IF c[i] > 0 THEN 1 ELSE -1

\* geom.valid_direct_vec on a converted position: every fractional
\* coordinate lies in [0, 1).
valid_direct_vec(v) ==
    \A k \in 1..3 :
        LET n == v.num[k]
            d == v.det
        IN  /\ SignEps(n) * SignEps(d) >= 0
            /\ SignEps([i \in 1..4 |-> n[i] - FracDen * d[i]]) * SignEps(d) < 0

\* The converted position as stored, to the grid.
Stored(v) ==
    <<DivGrid(v.num[1][1], v.det[1]), DivGrid(v.num[2][1], v.det[1]),
      DivGrid(v.num[3][1], v.det[1])>>

\* Lines 335-344 for the translation current_pos: the atoms of the shifted
\* copy of cart that the target cell keeps, in target fractional coordinates.
ShiftedInside(cart, coords, target, current_pos) ==
    LET shift_vector == VScale(FracDen, VecMat(current_pos, coords))
        inv          == new_coord_inv(target)
        shifted      == ShiftAll(cart, shift_vector)
        conv         == [i \in 1..Len(shifted) |->
                            [v |-> ConvertToTarget(shifted[i].position, inv),
                             element |-> shifted[i].element]]
        kept         == SelectSeq(conv, LAMBDA c : valid_direct_vec(c.v))
    IN  [i \in 1..Len(kept) |-> Atom(Stored(kept[i].v), kept[i].element)]

\* Lines 350-351: the neighbours of current_pos not yet searched.
NextPos(current_pos, searched) ==
    SelectSeq([i \in 1..Len(search_dirs) |-> VAdd(search_dirs[i], current_pos)],
              LAMBDA q : q \notin searched)

GrowLoopGuard_queue_only == Len(supercell_pos) > 0

\* The while condition of line 329.
GrowLoopGuard == Len(enlarged_struct) <= max_atoms /\ Len(supercell_pos) > 0

Snapshot == Structure(coordinates, direct, cartesian)

-----------------------------------------------------------------------------
(* collision_removal.py: the boundary passes.  A pass is an operator from  *)
(* the Structure, the arguments and the shuffled slabs to the Structure    *)
(* left and the count returned.                                            *)

\* array[mask]: the entries of s whose mask is TRUE, in order.
Masked(s, mask) ==
    LET idx == SelectSeq([i \in 1..Len(s) |-> i], LAMBDA i : mask[i])
    IN  [k \in 1..Len(idx) |-> s[idx[k]]]

MaskNot(m) == [i \in DOMAIN m |-> ~m[i]]
MaskOr(m, n) == [i \in DOMAIN m |-> m[i] \/ n[i]]

\* s without its i-th entry.
Without(s, i) == SubSeq(s, 1, i - 1) \o SubSeq(s, i + 1, Len(s))

RECURSIVE ShuffleOrders(_)
\* The orders np.random.shuffle can leave s in.
ShuffleOrders(s) ==
    IF Len(s) = 0 THEN {<<>>}
    ELSE UNION {{<<s[i]>> \o t : t \in ShuffleOrders(Without(s, i))} :
                   i \in 1..Len(s)}

\* 'if random_delete: np.random.shuffle(atoms)'
Shuffled(flag, s) == IF flag THEN ShuffleOrders(s) ELSE {s}

Outcome(st, n, e) == [st |-> st, n |-> n, err |-> e]

\* Lines 147-149: the mask of the atoms within radius of the plane z = 0.5.
on_iface_idx(st, radius) ==
    [i \in 1..Len(st.direct) |->
        /\ 2 * st.direct[i].position[3] < FracDen + 2 * radius
        /\ 2 * st.direct[i].position[3] > FracDen - 2 * radius]

\* remove_collision_on_interface, iface_atoms being the selected atoms in
\* the order the shuffle left them.
remove_collision_on_interface(st, radius, tbl, iface_atoms) ==
    LET orig_atom_count == Len(st.cartesian)
        idx   == on_iface_idx(st, radius)
        rest  == Structure(st.coordinates,
                           Masked(st.direct, MaskNot(idx)),
                           Masked(st.cartesian, MaskNot(idx)))
        kept  == remove_collision_within_region(iface_atoms, tbl)
        final == reconcile(Structure(rest.coordinates, rest.direct,
                                     rest.cartesian \o kept), "C")
    IN  Outcome(final, orig_atom_count - Len(final.cartesian), "none")

\* Lines 65-67 and 68-70: the masks of the slabs at 0 and at 1 along the axis.
on_btm_idx(st, radius, axis) ==
    [i \in 1..Len(st.direct) |->
        /\ st.direct[i].position[axis] < 0 + radius
        /\ st.direct[i].position[axis] > 0 - radius]

on_top_idx(st, radius, axis) ==
    [i \in 1..Len(st.direct) |->
        /\ st.direct[i].position[axis] < FracDen + radius
        /\ st.direct[i].position[axis] > FracDen - radius]

\* np.dot(dir_vec, struct.coordinates) for the unit vector of the axis, in
\* grid units.
AxisVector(st, axis) == VScale(FracDen, st.coordinates[axis])

remove_collision_surface_pair_unshifted(st, radius, tbl, axis, btm_atoms, top_atoms) ==
    LET orig_atom_count == Len(st.cartesian)
        either == MaskOr(on_btm_idx(st, radius, axis), on_top_idx(st, radius, axis))
        rest   == Masked(st.cartesian, MaskNot(either))
        coord  == AxisVector(st, axis)
        top_0  == ShiftAll(top_atoms, VScale(-1, coord))
        top_1  == remove_collision_within_region(top_0, tbl)
        btm_1  == remove_collision_within_region(btm_atoms, tbl)
        btm_2  == remove_collision_between_regions(top_1, btm_1, tbl)
        final  == reconcile(Structure(st.coordinates, st.direct,
                                      (rest \o btm_2) \o top_1), "C")
    IN  Outcome(final, orig_atom_count - Len(final.cartesian), "none")

\* remove_collision_surface_pair along the axis (dir_vec is its unit vector),
\* btm_atoms and top_atoms being the two slabs in the order the shuffles
\* left them.
remove_collision_surface_pair(st, radius, tbl, axis, btm_atoms, top_atoms) ==
    LET orig_atom_count == Len(st.cartesian)
        either == MaskOr(on_btm_idx(st, radius, axis), on_top_idx(st, radius, axis))
        rest   == Masked(st.cartesian, MaskNot(either))
        coord  == AxisVector(st, axis)
        top_0  == ShiftAll(top_atoms, VScale(-1, coord))
        top_1  == remove_collision_within_region(top_0, tbl)
        btm_1  == remove_collision_within_region(btm_atoms, tbl)
        btm_2  == remove_collision_between_regions(top_1, btm_1, tbl)
        top_2  == ShiftAll(top_1, coord)
        final  == reconcile(Structure(st.coordinates, st.direct,
                                      (rest \o btm_2) \o top_2), "C")
    IN  Outcome(final, orig_atom_count - Len(final.cartesian), "none")

\* geom.cartesian_product(np.array([0., 1.]), 3): the 8 corner indicators.
dir_vecs ==
    <<<<0, 0, 0>>, <<0, 0, 1>>, <<0, 1, 0>>, <<0, 1, 1>>,
      <<1, 0, 0>>, <<1, 0, 1>>, <<1, 1, 0>>, <<1, 1, 1>>>>

\* Lines 109-113: the mask of the atoms within radius of the corner dv on
\* every axis.
corner_idx(st, radius, dv) ==
    [i \in 1..Len(st.direct) |->
        /\ \A k \in 1..3 : st.direct[i].position[k] < FracDen * dv[k] + radius
        /\ \A k \in 1..3 : st.direct[i].position[k] > FracDen * dv[k] - radius]

RECURSIVE QualifyLoop_no_restore(_, _, _, _, _, _, _, _)
QualifyLoop_no_restore(corner_atoms, corner_indic, atm, dv, coords, tbl, i, qualify) ==
    IF i > Len(corner_atoms) \/ ~qualify
    THEN [qualify |-> qualify, corner_atoms |-> corner_atoms]
    ELSE LET shift   == VScale(FracDen, VecMat(VSub(dv, corner_indic[i]), coords))
             moved   == Atom(VAdd(corner_atoms[i].position, shift),
                             corner_atoms[i].element)
             safe    == apart_by_safe_distance(tbl, moved, atm)
         IN  QualifyLoop_no_restore([corner_atoms EXCEPT ![i] = moved],
                                    corner_indic, atm, dv, coords, tbl, i + 1, safe)

RECURSIVE QualifyLoop(_, _, _, _, _, _, _, _)
\* Lines 120-128 from pool index i: each pool atom tested is shifted to the
\* image at the corner dv, compared with atm and shifted back.  The loop
\* stops at the first unsafe pool atom.
QualifyLoop(corner_atoms, corner_indic, atm, dv, coords, tbl, i, qualify) ==
    IF i > Len(corner_atoms) \/ ~qualify
    THEN [qualify |-> qualify, corner_atoms |-> corner_atoms]
    ELSE LET shift   == VScale(FracDen, VecMat(VSub(dv, corner_indic[i]), coords))
             moved   == Atom(VAdd(corner_atoms[i].position, shift),
                             corner_atoms[i].element)
             safe    == apart_by_safe_distance(tbl, moved, atm)
             back    == Atom(VSub(moved.position, shift), moved.element)
         IN  QualifyLoop([corner_atoms EXCEPT ![i] = back], corner_indic, atm,
                         dv, coords, tbl, i + 1, safe)

RECURSIVE CandidateLoop(_, _, _, _, _, _, _)
\* Lines 117-131 from the j-th candidate of the corner dv.
CandidateLoop(candidate_atoms, j, corner_atoms, corner_indic, dv, coords, tbl) ==
    IF j > Len(candidate_atoms)
    THEN [corner_atoms |-> corner_atoms, corner_indic |-> corner_indic]
    ELSE LET q == QualifyLoop(corner_atoms, corner_indic, candidate_atoms[j],
                              dv, coords, tbl, 1, TRUE)
         IN  IF q.qualify
             THEN CandidateLoop(candidate_atoms, j + 1,
                                Append(q.corner_atoms, candidate_atoms[j]),
                                Append(corner_indic, dv), dv, coords, tbl)
             ELSE CandidateLoop(candidate_atoms, j + 1, q.corner_atoms,
                                corner_indic, dv, coords, tbl)

RECURSIVE CornerLoop(_, _, _, _, _, _)
\* Lines 108-133 from the k-th corner: the Structure without the atoms
\* selected so far, and the pool of accepted atoms.
CornerLoop(st, radius, tbl, k, corner_atoms, corner_indic) ==
    IF k > Len(dir_vecs)
    THEN [st |-> st, corner_atoms |-> corner_atoms, corner_indic |-> corner_indic]
    ELSE LET dv   == dir_vecs[k]
             idx  == corner_idx(st, radius, dv)
             cand == Masked(st.cartesian, idx)
             rest == Structure(st.coordinates, st.direct,
                               Masked(st.cartesian, MaskNot(idx)))
             pool == CandidateLoop(cand, 1, corner_atoms, corner_indic, dv,
                                   st.coordinates, tbl)
         IN  CornerLoop(reconcile(rest, "C"), radius, tbl, k + 1,
                        pool.corner_atoms, pool.corner_indic)

\* remove_collision_at_corners.  With an empty pool, np.array(corner_atoms)
\* is an empty float array, which line 135 concatenates with the record
\* array: numpy either raises TypeError there (raises = TRUE) or appends
\* nothing.
remove_collision_at_corners(st, radius, tbl, raises) ==
    LET orig_atom_count == Len(st.cartesian)
        loop  == CornerLoop(st, radius, tbl, 1, <<>>, <<>>)
        final == reconcile(Structure(loop.st.coordinates, loop.st.direct,
                                     loop.st.cartesian \o loop.corner_atoms), "C")
    IN  IF Len(loop.corner_atoms) = 0 /\ raises
        THEN Outcome(loop.st, 0, "TypeError")
        ELSE Outcome(final, orig_atom_count - Len(final.cartesian), "none")

\* Whether line 135 can raise for this Structure: the choices of raises.
CornerRaises(st, radius, tbl) ==
    IF Len(CornerLoop(st, radius, tbl, 1, <<>>, <<>>).corner_atoms) = 0
    THEN {FALSE, TRUE} ELSE {FALSE}

-----------------------------------------------------------------------------
(* Values of the variables an operation does not use. *)

NoCall == [fn |-> "none", a |-> <<>>, b |-> <<>>, ret |-> <<>>]
NoStructure == [coordinates |-> <<>>, direct |-> <<>>, cartesian |-> <<>>]

RegionIdle == reg = <<>> /\ last = NoCall
StructIdle == coordinates = <<>> /\ direct = <<>> /\ cartesian = <<>>
GrowIdle ==
    /\ lattice_vecs = <<>> /\ max_atoms = 0 /\ supercell_pos = <<>>
    /\ searched_pos = {} /\ enlarged_struct = <<>> /\ popped = <<>>
NoReturn == [fn |-> "none", axis |-> 0, n |-> 0]
RemoveIdle ==
    /\ boundary_radius = 0 /\ random_delete = FALSE
    /\ rc_before = NoStructure /\ rc_passes = <<>> /\ ret = NoReturn

\* All sequences over S of length at most n.
SeqsUpTo(S, n) == UNION {[1..k -> S] : k \in 0..n}

-----------------------------------------------------------------------------
(* SpecRegion: the predicate and the region filters applied to bounded     *)
(* inputs, under every table the loader can build from MaxEntries entries. *)

RegionThresholds == {1, 2}
RegionAtoms ==
    {Atom(<<0, 0, 0>>, "X"), Atom(<<1, 0, 0>>, "X"), Atom(<<2, 0, 0>>, "X"),
     Atom(<<1, 0, 0>>, "Y")}

ConfigEntries(T) == {<<e1, e2, d>> : e1 \in Elements, e2 \in Elements, d \in T}
RegionTables ==
    {from_gbconf_file(es) : es \in SeqsUpTo(ConfigEntries(RegionThresholds), MaxEntries)}

InitRegion ==
    /\ min_dist_dict \in RegionTables
    /\ reg \in SeqsUpTo(RegionAtoms, MaxRegLen)
    /\ last = NoCall
    /\ pc = "region"
    /\ err = "none"
    /\ before = NoStructure
    /\ struct_2 = NoStructure
    /\ StructIdle /\ GrowIdle /\ RemoveIdle

\* apart_by_safe_distance(min_dist_dict, reg[i], reg[j])
CallApart ==
    /\ pc = "region"
    /\ \E i \in 1..Len(reg), j \in 1..Len(reg) :
          last' = [fn |-> "apart", a |-> reg[i], b |-> reg[j],
                   ret |-> apart_by_safe_distance(min_dist_dict, reg[i], reg[j])]
    /\ UNCHANGED <<min_dist_dict, reg, pc, err, before, structVars, growVars, removeVars, combineVars>>

\* reg = remove_collision_within_region(reg, min_dist_dict)
CallWithin ==
    /\ pc = "region"
    /\ LET out == remove_collision_within_region(reg, min_dist_dict)
       IN  /\ last' = [fn |-> "within", a |-> reg, b |-> <<>>, ret |-> out]
           /\ reg' = out
    /\ UNCHANGED <<min_dist_dict, pc, err, before, structVars, growVars, removeVars, combineVars>>

\* remove_collision_between_regions(reg[0:k], reg[k:], min_dist_dict)
CallBetween ==
    /\ pc = "region"
    /\ \E k \in 0..Len(reg) :
          LET fixed  == SubSeq(reg, 1, k)
              pruned == SubSeq(reg, k + 1, Len(reg))
          IN  last' = [fn |-> "between", a |-> fixed, b |-> pruned,
                       ret |-> remove_collision_between_regions(
                                   fixed, pruned, min_dist_dict)]
    /\ UNCHANGED <<min_dist_dict, reg, pc, err, before, structVars, growVars, removeVars, combineVars>>

NextRegion == CallApart \/ CallWithin \/ CallBetween

SpecRegion == InitRegion /\ [][NextRegion]_vars

-----------------------------------------------------------------------------
(* SpecGrow: one call of grow_to_supercell on a source Structure, the loop *)
(* taken one iteration at a time.                                          *)

Cubic(a) == <<<<a, 0, 0>>, <<0, a, 0>>, <<0, 0, a>>>>

\* A cubic cell of side 1 described by a sheared basis.
Sheared == <<<<1, 0, 0>>, <<4, 1, 0>>, <<0, 0, 1>>>>

SourceLattices == {Cubic(1), Cubic(2), Sheared}
TargetLattices == {Cubic(1), Cubic(2), Sheared}
MaxAtomsChoices == {1, 100}

Half == FracDen \div 2
ThreeQuarters == (3 * FracDen) \div 4

\* The atoms of a source cell, fractional coordinates in [0, 1).
SourceAtoms ==
    {<<Atom(<<0, 0, 0>>, "X")>>,
     <<Atom(<<Half, Half, Half>>, "X")>>,
     <<Atom(<<0, 0, 0>>, "X"), Atom(<<Half, Half, Half>>, "Y")>>,
     <<Atom(<<ThreeQuarters, ThreeQuarters, ThreeQuarters>>, "X")>>}

InitGrow ==
    /\ \E c \in SourceLattices, atoms \in SourceAtoms :
          LET st == NewStructure(c, atoms)
          IN  /\ coordinates = st.coordinates
              /\ direct = st.direct
              /\ cartesian = st.cartesian
    /\ pc = "start"
    /\ err = "none"
    /\ before = NoStructure
    /\ struct_2 = NoStructure
    /\ min_dist_dict = <<>>
    /\ RegionIdle /\ GrowIdle /\ RemoveIdle

\* The call, up to the loop: lines 315-328.
GrowCall ==
    /\ pc = "start"
    /\ \E t \in TargetLattices, m \in MaxAtomsChoices :
          /\ lattice_vecs' = t
          /\ max_atoms' = m
    /\ supercell_pos' = supercell_pos_seeds
    /\ searched_pos' = {}
    /\ enlarged_struct' = <<>>
    /\ popped' = <<>>
    /\ before' = Snapshot
    /\ pc' = "loop"
    /\ UNCHANGED <<min_dist_dict, err, regionVars, structVars, removeVars, combineVars>>

GrowSkip_reprocess ==
    /\ pc = "loop"
    /\ GrowLoopGuard
    /\ Head(supercell_pos) \in searched_pos
    /\ LET current_pos == Head(supercell_pos)
           shifted     == ShiftedInside(cartesian, coordinates, lattice_vecs,
                                        current_pos)
       IN  /\ popped' = Append(popped, current_pos)
           /\ enlarged_struct' = enlarged_struct \o shifted
           /\ supercell_pos' = Tail(supercell_pos)
    /\ UNCHANGED <<min_dist_dict, pc, err, before, regionVars, structVars, removeVars,
                   lattice_vecs, max_atoms, searched_pos, combineVars>>

\* One iteration that pops a translation already searched: lines 330-333.
GrowSkip ==
    /\ pc = "loop"
    /\ GrowLoopGuard
    /\ Head(supercell_pos) \in searched_pos
    /\ supercell_pos' = Tail(supercell_pos)
    /\ UNCHANGED <<min_dist_dict, pc, err, before, regionVars, structVars, removeVars,
                   lattice_vecs, max_atoms, searched_pos, enlarged_struct, popped, combineVars>>

\* One iteration that processes a translation: lines 330-352.
GrowShell ==
    /\ pc = "loop"
    /\ GrowLoopGuard
    /\ Head(supercell_pos) \notin searched_pos
    /\ LET current_pos == Head(supercell_pos)
           searched    == searched_pos \cup {current_pos}
           shifted     == ShiftedInside(cartesian, coordinates, lattice_vecs,
                                        current_pos)
       IN  /\ searched_pos' = searched
           /\ popped' = Append(popped, current_pos)
           /\ IF Len(shifted) > 0
              THEN /\ enlarged_struct' = enlarged_struct \o shifted
                   /\ supercell_pos' =
                          Tail(supercell_pos) \o NextPos(current_pos, searched)
              ELSE /\ enlarged_struct' = enlarged_struct
                   /\ supercell_pos' = Tail(supercell_pos)
    /\ UNCHANGED <<min_dist_dict, pc, err, before, regionVars, structVars, removeVars,
                   lattice_vecs, max_atoms, combineVars>>

\* After the loop, atoms were kept: lines 354-361.
GrowReturn ==
    /\ pc = "loop"
    /\ ~GrowLoopGuard
    /\ Len(np_unique(enlarged_struct)) > 0
    /\ LET st == reconcile(Structure(lattice_vecs,
                                     sort_by_element(np_unique(enlarged_struct)),
                                     cartesian), "D")
       IN  /\ coordinates' = st.coordinates
           /\ direct' = st.direct
           /\ cartesian' = st.cartesian
    /\ pc' = "done"
    /\ UNCHANGED <<min_dist_dict, err, before, regionVars, growVars, removeVars, combineVars>>

\* After the loop, no atom was kept: line 354 assigns self.direct, then
\* line 356 raises ValueError.
GrowRaise ==
    /\ pc = "loop"
    /\ ~GrowLoopGuard
    /\ Len(np_unique(enlarged_struct)) <= 0
    /\ direct' = np_unique(enlarged_struct)
    /\ err' = "ValueError"
    /\ pc' = "failed"
    /\ UNCHANGED <<min_dist_dict, before, coordinates, cartesian, regionVars,
                   growVars, removeVars, combineVars>>

NextGrow == GrowCall \/ GrowSkip \/ GrowShell \/ GrowReturn \/ GrowRaise

SpecGrow == InitGrow /\ [][NextGrow]_vars

\* A step of GrowShell: it is enabled whenever its guard holds, and it is the
\* only step that appends the front of the queue to popped.
ProcessStep ==
    /\ pc = "loop"
    /\ GrowLoopGuard
    /\ Head(supercell_pos) \notin searched_pos
    /\ popped' = Append(popped, Head(supercell_pos))

\* A step of GrowReturn or GrowRaise: one of the two is enabled whenever the
\* while condition fails, and they are the only steps that leave the loop.
ExitStep ==
    /\ pc = "loop"
    /\ ~GrowLoopGuard
    /\ pc' \in {"done", "failed"}

\* The call runs on: the statement it has reached is executed.
SpecGrowFair ==
    /\ SpecGrow
    /\ WF_vars(GrowCall)
    /\ WF_vars(GrowSkip)
    /\ WF_popped(ProcessStep)
    /\ WF_pc(ExitStep)

-----------------------------------------------------------------------------
(* SpecRemove: one call of a boundary pass, or of remove_collision with    *)
(* its five passes taken one at a time, on a reconciled Structure.         *)

Far == FracDen - 1
Third == (3 * FracDen) \div 10

\* Atoms at a corner, on a face, on a cell edge, on the interface and inside.
RemoveAtoms ==
    {Atom(<<0, 0, 0>>, "X"), Atom(<<0, 0, Far>>, "X"), Atom(<<Far, Far, Far>>, "X"),
     Atom(<<1, 1, Third>>, "X"), Atom(<<Far, Far, Third>>, "X"),
     Atom(<<Half, Half, Half>>, "X"), Atom(<<Half, Half, Half + 1>>, "X"),
     Atom(<<Third, Third, Third>>, "X"),
     Atom(<<0, 0, Far>>, "Y"), Atom(<<Half, Half, Half + 1>>, "Y")}

RemoveLattices == {Cubic(10)}
\* boundary_radius and random_delete: a thin boundary, and one so thick
\* that the slabs at 0 and at 1 overlap.
RemoveArguments ==
    {<<FracDen \div 100, FALSE>>, <<FracDen \div 100, TRUE>>,
     <<(6 * FracDen) \div 10, FALSE>>}
RemoveTables ==
    {from_gbconf_file(<<>>),
     from_gbconf_file(<<<<"X", "X", 2 * FracDen>>>>),
     from_gbconf_file(<<<<"X", "X", 2 * FracDen>>, <<"X", "Y", 2 * FracDen>>>>)}

RECURSIVE SetToSeq(_)
SetToSeq(S) ==
    IF S = {} THEN <<>>
    ELSE LET x == CHOOSE y \in S : TRUE
         IN  <<x>> \o SetToSeq(S \ {x})

InitRemove ==
    /\ \E c \in RemoveLattices :
       \E atoms \in {A \in SUBSET RemoveAtoms : Cardinality(A) <= MaxRemoveAtoms} :
          LET st == reconcile(NewStructure(c, SetToSeq(atoms)), "D")
          IN  /\ coordinates = st.coordinates
              /\ direct = st.direct
              /\ cartesian = st.cartesian
    /\ min_dist_dict \in RemoveTables
    /\ \E arg \in RemoveArguments :
          boundary_radius = arg[1] /\ random_delete = arg[2]
    /\ pc = "idle"
    /\ err = "none"
    /\ before = NoStructure
    /\ struct_2 = NoStructure
    /\ rc_before = NoStructure
    /\ rc_passes = <<>>
    /\ ret = NoReturn
    /\ RegionIdle /\ GrowIdle

\* The stages of remove_collision, in which it calls a pass.
RemoveStages == {"rc_interface", "rc_pair_1", "rc_pair_2", "rc_pair_3", "rc_corners"}

StageAfter_two_axes(p) ==
    CASE p = "rc_interface" -> "rc_pair_1"
      [] p = "rc_pair_1" -> "rc_pair_2"
      [] p = "rc_pair_2" -> "rc_corners"
      [] p = "rc_corners" -> "rc_return"
      [] OTHER -> "returned"

\* The pass after the one at stage p of remove_collision (lines 169-174).
StageAfter(p) ==
    CASE p = "rc_interface" -> "rc_pair_1"
      [] p = "rc_pair_1" -> "rc_pair_2"
      [] p = "rc_pair_2" -> "rc_pair_3"
      [] p = "rc_pair_3" -> "rc_corners"
      [] p = "rc_corners" -> "rc_return"
      [] OTHER -> "returned"

\* A pass leaves the Structure out.st and returns out.n, or raises.
PassEnds(fn, axis, out) ==
    /\ coordinates' = out.st.coordinates
    /\ direct' = out.st.direct
    /\ cartesian' = out.st.cartesian
    /\ before' = Snapshot
    /\ err' = out.err
    /\ IF out.err = "none"
       THEN ret' = [fn |-> fn, axis |-> axis, n |-> out.n] /\ pc' = StageAfter(pc)
       ELSE ret' = ret /\ pc' = "raised"
    /\ IF out.err = "none" /\ pc \in RemoveStages
       THEN rc_passes' = Append(rc_passes,
                [fn |-> fn, axis |-> axis, n |-> out.n,
                 from |-> Snapshot, to |-> out.st])
       ELSE rc_passes' = rc_passes
    /\ UNCHANGED <<min_dist_dict, regionVars, growVars, boundary_radius,
                   random_delete, rc_before, combineVars>>

\* remove_collision_on_interface, called alone or by remove_collision.
InterfacePass ==
    /\ pc \in {"idle", "rc_interface"}
    /\ \E iface_atoms \in Shuffled(random_delete,
                           Masked(cartesian, on_iface_idx(Snapshot, boundary_radius))) :
          PassEnds("interface", 0,
                   remove_collision_on_interface(Snapshot, boundary_radius,
                                                 min_dist_dict, iface_atoms))

\* remove_collision_surface_pair along an axis, called alone or by
\* remove_collision.
SurfacePairPass ==
    \E axis \in 1..3 :
        /\ pc = "idle" \/ pc = <<"rc_pair_1", "rc_pair_2", "rc_pair_3">>[axis]
        /\ \E btm_atoms \in Shuffled(random_delete,
                 Masked(cartesian, on_btm_idx(Snapshot, boundary_radius, axis))) :
           \E top_atoms \in Shuffled(random_delete,
                 Masked(cartesian, on_top_idx(Snapshot, boundary_radius, axis))) :
              PassEnds("surface_pair", axis,
                       remove_collision_surface_pair(Snapshot, boundary_radius,
                           min_dist_dict, axis, btm_atoms, top_atoms))

\* remove_collision_at_corners, called alone or by remove_collision.
CornersPass ==
    /\ pc \in {"idle", "rc_corners"}
    /\ \E raises \in CornerRaises(Snapshot, boundary_radius, min_dist_dict) :
          PassEnds("corners", 0,
                   remove_collision_at_corners(Snapshot, boundary_radius,
                                               min_dist_dict, raises))

\* remove_collision: line 167.
RemoveCollisionCall ==
    /\ pc = "idle"
    /\ pc' = "rc_interface"
    /\ rc_before' = Snapshot
    /\ rc_passes' = <<>>
    /\ UNCHANGED <<min_dist_dict, err, before, regionVars, structVars, growVars,
                   boundary_radius, random_delete, ret, combineVars>>

\* remove_collision: lines 178-180.
RemoveCollisionReturn ==
    /\ pc = "rc_return"
    /\ pc' = "returned"
    /\ ret' = [fn |-> "remove_collision", axis |-> 0,
               n |-> Len(rc_before.cartesian) - Len(cartesian)]
    /\ UNCHANGED <<min_dist_dict, err, before, regionVars, structVars, growVars,
                   boundary_radius, random_delete, rc_before, rc_passes, combineVars>>

NextRemove ==
    \/ InterfacePass
    \/ SurfacePairPass
    \/ CornersPass
    \/ RemoveCollisionCall
    \/ RemoveCollisionReturn

SpecRemove == InitRemove /\ [][NextRemove]_vars

-----------------------------------------------------------------------------
(* SpecStruct: two calls among reconcile, transform and combine_structures *)
(* on a Structure as its constructor leaves it (atoms in the order given,  *)
(* cartesian derived from direct).                                         *)

StructAtoms ==
    {Atom(<<0, 0, 0>>, "X"), Atom(<<Half, Half, Half>>, "X"),
     Atom(<<Half, 0, 0>>, "Y"), Atom(<<0, 0, Half>>, "Y")}

StructLattices == {Cubic(1), Cubic(2), Sheared}

\* Matrices for transform: the identity, a quarter turn about the third
\* axis, and the exchange of the first and the third axis.
TransMats ==
    {Identity3,
     <<<<0, -1, 0>>, <<1, 0, 0>>, <<0, 0, 1>>>>,
     <<<<0, 0, 1>>, <<0, 1, 0>>, <<1, 0, 0>>>>}

InitStruct ==
    /\ \E c \in StructLattices, atoms \in SeqsUpTo(StructAtoms, MaxStructAtoms) :
          LET st == NewStructure(c, atoms)
          IN  /\ coordinates = st.coordinates
              /\ direct = st.direct
              /\ cartesian = st.cartesian
    /\ pc = "struct"
    /\ err = "none"
    /\ before = NoStructure
    /\ struct_2 = NoStructure
    /\ min_dist_dict = <<>>
    /\ RegionIdle /\ GrowIdle /\ RemoveIdle

\* The positions at which the caller calls a method of the Structure.
StructCalls == {"struct", "struct_returned"}

\* A method of the Structure leaves it as st and returns.
StructReturns(fn, st) ==
    /\ coordinates' = st.coordinates
    /\ direct' = st.direct
    /\ cartesian' = st.cartesian
    /\ before' = Snapshot
    /\ ret' = [fn |-> fn, axis |-> 0, n |-> 0]
    /\ pc' = IF pc = "struct" THEN "struct_returned" ELSE "struct_returned_again"
    /\ UNCHANGED <<min_dist_dict, err, regionVars, growVars, boundary_radius,
                   random_delete, rc_before, rc_passes>>

\* self.reconcile(according_to) with 'C' or 'D'.
ReconcileCall ==
    /\ pc \in StructCalls
    /\ \E according_to \in {"C", "D"} :
          StructReturns("reconcile", reconcile(Snapshot, according_to))
    /\ UNCHANGED combineVars

\* self.reconcile(according_to) with any other argument: lines 292-294.
ReconcileRaise ==
    /\ pc \in StructCalls
    /\ err' = "ValueError"
    /\ pc' = "struct_failed"
    /\ before' = Snapshot
    /\ UNCHANGED <<min_dist_dict, regionVars, structVars, growVars, removeVars,
                   combineVars>>

\* self.transform(trans_mat)
TransformCall ==
    /\ pc \in StructCalls
    /\ \E trans_mat \in TransMats :
          StructReturns("transform", transform(Snapshot, trans_mat))
    /\ UNCHANGED combineVars

\* Structure.combine_structures(self, other), other a Structure on the
\* same lattice vectors as its constructor leaves it.
CombineCall ==
    /\ pc \in StructCalls
    /\ \E atoms \in SeqsUpTo(StructAtoms, MaxStructAtoms) :
          /\ Len(atoms) >= 1
          /\ Len(direct) + Len(atoms) <= MaxCombinedAtoms
          /\ LET out == combine_structures(Snapshot, NewStructure(coordinates, atoms))
             IN  /\ StructReturns("combine_structures", out.struct_1)
                 /\ struct_2' = out.struct_2

NextStruct == ReconcileCall \/ ReconcileRaise \/ TransformCall \/ CombineCall

SpecStruct == InitStruct /\ [][NextStruct]_vars

-----------------------------------------------------------------------------
(* SpecAll: every operation that ends by reconciling the Structure, each   *)
(* from its own initial states.                                            *)

InitAll == InitStruct \/ InitGrow \/ InitRemove

NextAll == NextStruct \/ NextGrow \/ NextRemove

SpecAll == InitAll /\ [][NextAll]_vars

-----------------------------------------------------------------------------
(* Claims about the predicate and the region filters. *)

\* C1: for every table and every two atoms a and b,
\* apart_by_safe_distance(table, a, b) equals apart_by_safe_distance(table, b, a).
C1_PairOrderIndependent ==
    last.fn = "apart" =>
        last.ret = apart_by_safe_distance(min_dist_dict, last.b, last.a)

SafeOfAll(fixed, pruned, tbl) ==
    SelectSeq(pruned, LAMBDA x :
        \A j \in 1..Len(fixed) : apart_by_safe_distance(tbl, x, fixed[j]))

\* C3: remove_collision_between_regions(fixed, pruned) returns, in the order of
\* pruned, exactly the atoms of pruned that are safe relative to every atom of
\* fixed; it returns no more atoms than pruned has, and the caller's fixed
\* atoms are as they were.
C3_BetweenExact ==
    last.fn = "between" =>
        /\ last.ret = SafeOfAll(last.a, last.b, min_dist_dict)
        /\ Len(last.ret) <= Len(last.b)
        /\ SubSeq(reg, 1, Len(last.a)) = last.a

\* C3 witness: two fixed atoms, the second of which removes a pruned atom
\* that the first leaves.
C3_Witness ==
    /\ last.fn = "between"
    /\ Len(last.a) >= 2
    /\ Len(last.ret) < Len(KeepSafe(min_dist_dict, last.b, last.a[1]))

RECURSIVE SurvivorIdx(_, _, _, _)
\* The indexes of s, from i on, of the atoms that are safe relative to every
\* atom at an index already in kept.
SurvivorIdx(s, tbl, i, kept) ==
    IF i > Len(s) THEN kept
    ELSE IF \A k \in 1..Len(kept) : apart_by_safe_distance(tbl, s[i], s[kept[k]])
         THEN SurvivorIdx(s, tbl, i + 1, Append(kept, i))
         ELSE SurvivorIdx(s, tbl, i + 1, kept)

\* C13: the output of remove_collision_within_region is the input at an
\* increasing sequence of indexes that starts with the first atom, and the
\* input atom at index i is dropped if and only if it is unsafe relative to
\* the atom at some earlier index that survives.
C13_EarlierIndexWins ==
    last.fn = "within" =>
        LET idx == SurvivorIdx(last.a, min_dist_dict, 1, <<>>)
        IN  /\ last.ret = [k \in 1..Len(idx) |-> last.a[idx[k]]]
            /\ \A k \in 1..(Len(idx) - 1) : idx[k] < idx[k + 1]
            /\ Len(last.a) >= 1 => (idx[1] = 1 /\ last.ret[1] = last.a[1])
            /\ \A i \in 1..Len(last.a) :
                  (i \notin Range(idx)) <=>
                      \E j \in Range(idx) :
                          /\ j < i
                          /\ ~apart_by_safe_distance(min_dist_dict, last.a[i], last.a[j])

\* C13 witness: of three atoms the second is dropped because of the first,
\* and the third, unsafe relative to the second only, survives.
C13_Witness ==
    /\ last.fn = "within"
    /\ Len(last.a) = 3
    /\ last.ret = <<last.a[1], last.a[3]>>
    /\ ~apart_by_safe_distance(min_dist_dict, last.a[2], last.a[1])
    /\ ~apart_by_safe_distance(min_dist_dict, last.a[3], last.a[2])
    /\ apart_by_safe_distance(min_dist_dict, last.a[3], last.a[1])

-----------------------------------------------------------------------------
(* Claims about grow_to_supercell. *)

\* The fractional coordinates of p in the lattice M lie in [0, 1)^3.
InsideCell(p, M) ==
    LET n == VecMat(p, Adj3(M))
        d == Det3(M)
    IN  \A k \in 1..3 :
            IF d > 0 THEN 0 <= n[k] /\ n[k] < FracDen * d
            ELSE 0 >= n[k] /\ n[k] > FracDen * d

Translations == {<<i, j, k>> : i \in -MaxShift..MaxShift,
                               j \in -MaxShift..MaxShift,
                               k \in -MaxShift..MaxShift}

\* The image of the source atom a under the translation t of the source lattice.
ImageOf(a, t) ==
    Atom(VAdd(a.position, VScale(FracDen, VecMat(t, before.coordinates))),
         a.element)

\* C4: when the loop ends with the queue exhausted and the count never above
\* max_atoms, every image a + t . source_lattice of a source atom whose
\* fractional coordinates in the target lattice lie in [0,1)^3 is an atom of
\* the result.
C4_FillsTargetCell ==
    (pc = "done" /\ Len(enlarged_struct) <= max_atoms) =>
        \A t \in Translations : \A i \in 1..Len(before.cartesian) :
            LET img == ImageOf(before.cartesian[i], t)
            IN  InsideCell(img.position, lattice_vecs) =>
                    img \in Range(cartesian)

\* The source atoms have fractional coordinates in [0, 1).
SourceInUnitCell ==
    \A i \in 1..Len(before.direct) : \A k \in 1..3 :
        0 <= before.direct[i].position[k] /\ before.direct[i].position[k] < FracDen

\* C5: for a target lattice identical to the source lattice and max_atoms >=
\* the source atom count, grow_to_supercell returns exactly the source atom
\* set, sorted by element: nothing added, duplicated or removed.
C5_SameLatticeSameAtoms ==
    (/\ pc \in {"done", "failed"}
     /\ lattice_vecs = before.coordinates
     /\ max_atoms >= Len(before.direct)
     /\ SourceInUnitCell) =>
        /\ pc = "done"
        /\ direct = sort_by_element(before.direct)
        /\ cartesian = sort_by_element(before.cartesian)

UnitTranslations == {<<i, j, k>> : i \in {0, 1}, j \in {0, 1}, k \in {0, 1}}

\* C6: a 1-atom cubic source cell of side 1 grown into a cube of side 2 with
\* max_atoms = 100 yields exactly 8 atoms, one for each translation in
\* {0,1}^3, at distinct positions.
C6_TwoByTwoByTwo ==
    (/\ pc \in {"done", "failed"}
     /\ before.coordinates = Cubic(1)
     /\ Len(before.direct) = 1
     /\ lattice_vecs = Cubic(2)
     /\ max_atoms = 100) =>
        /\ pc = "done"
        /\ Len(cartesian) = 8
        /\ Range(cartesian) = {ImageOf(before.cartesian[1], t) : t \in UnitTranslations}

\* direct and cartesian describe the same atoms in the lattice coordinates.
Consistent ==
    /\ Len(direct) = Len(cartesian)
    /\ \A i \in 1..Len(direct) :
          /\ direct[i].element = cartesian[i].element
          /\ cartesian[i].position = VecMat(direct[i].position, coordinates)

\* C7: when grow_to_supercell fails with the empty-result error, the error
\* reaches the caller and the Structure is as it was before the call:
\* lattice vectors, direct atoms and cartesian atoms unchanged and consistent.
C7_FailedGrowLeavesStructure ==
    pc = "failed" =>
        /\ err = "ValueError"
        /\ Snapshot = before
        /\ Consistent

\* C14: no translation vector is popped once the accumulated atom count
\* exceeds max_atoms, and at every point of the loop and when it ends the
\* accumulated count (before deduplication) is at most max_atoms plus the
\* number of atoms of the source cell.
C14_SoftCap ==
    /\ [](pc \in {"loop", "done", "failed"} =>
             Len(enlarged_struct) <= max_atoms + Len(before.cartesian))
    /\ [][(pc = "loop" /\ supercell_pos' # supercell_pos) =>
             Len(enlarged_struct) <= max_atoms]_vars

\* C14 witness: the loop ended with translations left in the queue because
\* the last shell took the count above max_atoms.
C14_Witness ==
    /\ pc = "done"
    /\ Len(supercell_pos) > 0
    /\ Len(enlarged_struct) > max_atoms
    /\ Len(before.cartesian) = 2

\* The translations the queue gains in a step, behind those it held.
Enqueued == SubSeq(supercell_pos', Len(supercell_pos), Len(supercell_pos'))

\* One iteration of the loop pops the front of the queue and appends behind
\* the rest; a visited translation is skipped and contributes nothing; a
\* translation is processed once; neighbours are enqueued only by a shell
\* that kept an atom, and they are neighbours of the translation popped.
GrowIteration ==
    (pc = "loop" /\ supercell_pos' # supercell_pos) =>
        LET current_pos == Head(supercell_pos)
        IN  /\ Len(supercell_pos') >= Len(supercell_pos) - 1
            /\ SubSeq(supercell_pos', 1, Len(supercell_pos) - 1) = Tail(supercell_pos)
            /\ current_pos \in searched_pos =>
                  /\ enlarged_struct' = enlarged_struct
                  /\ popped' = popped
                  /\ Enqueued = <<>>
            /\ current_pos \notin searched_pos =>
                  /\ popped' = Append(popped, current_pos)
                  /\ searched_pos' = searched_pos \cup {current_pos}
            /\ Enqueued # <<>> =>
                  /\ Len(enlarged_struct') > Len(enlarged_struct)
                  /\ Range(Enqueued) \subseteq
                         {VAdd(search_dirs[i], current_pos) : i \in 1..Len(search_dirs)}

\* C15: translation vectors are popped first-in-first-out, each translation
\* is processed at most once (a popped translation already visited is
\* skipped), the neighbours of a translation are enqueued only when its
\* shell kept an atom inside the target cell, and the loop terminates.
C15_BreadthFirstOnce ==
    /\ [][GrowIteration]_vars
    /\ [](\A i \in 1..Len(popped) : \A j \in (i + 1)..Len(popped) :
              popped[i] # popped[j])
    /\ [](Len(enlarged_struct) <= Len(popped) * Len(before.cartesian))
    /\ ((pc = "loop") ~> (pc \in {"done", "failed"}))

\* C15 witness: after the seeds, a translation that the queue holds twice
\* and that is already visited is at the front, about to be skipped.
C15_Witness ==
    /\ pc = "loop"
    /\ GrowLoopGuard
    /\ Len(popped) > Len(supercell_pos_seeds)
    /\ Head(supercell_pos) \in searched_pos
    /\ Cardinality({i \in 1..Len(supercell_pos) :
                        supercell_pos[i] = Head(supercell_pos)}) >= 2

-----------------------------------------------------------------------------
(* Claims about the boundary passes and remove_collision. *)

\* The number of entries of s equal to a.
Count(s, a) == Cardinality({i \in 1..Len(s) : s[i] = a})

\* Every atom occurs in s at most as often as in t.
SubMultiset(s, t) == \A a \in Range(s) : Count(s, a) <= Count(t, a)

\* The face-pair pass along ret.axis started from two atoms, the i-th only
\* in the bottom slab and the other only in the top slab, which are unsafe
\* once the top atom is shifted by minus one lattice translation.
UnsafeFacePair(i) ==
    LET btm == on_btm_idx(before, boundary_radius, ret.axis)
        top == on_top_idx(before, boundary_radius, ret.axis)
        j   == 3 - i
        moved == Atom(VSub(before.cartesian[j].position,
                           AxisVector(before, ret.axis)),
                      before.cartesian[j].element)
    IN  /\ btm[i] /\ ~top[i]
        /\ top[j] /\ ~btm[j]
        /\ ~apart_by_safe_distance(min_dist_dict, before.cartesian[i], moved)

\* C8: a face-pair pass over a Structure with one atom in the bottom slab and
\* one atom in the top slab along the axis, unsafe after the top atom is
\* shifted by one lattice translation, removes exactly one of the two atoms
\* and returns 1, and the survivor is at its original position.
C8_FacePairRemovesOne ==
    (/\ ret.fn = "surface_pair"
     /\ err = "none"
     /\ Len(before.cartesian) = 2
     /\ \E i \in 1..2 : UnsafeFacePair(i)) =>
        /\ ret.n = 1
        /\ Len(cartesian) = 1
        /\ Len(direct) = 1
        /\ cartesian[1] \in Range(before.cartesian)
        /\ direct[1] \in Range(before.direct)

\* C8 witness: X at fractional (0,0,0) and (0,0,0.999) in the cubic cell of
\* side 10, X-X = 2.0, radius 0.01, the pass along the third axis: one atom is
\* left.
C8_Witness ==
    /\ ret.fn = "surface_pair"
    /\ ret.axis = 3
    /\ err = "none"
    /\ before.coordinates = Cubic(10)
    /\ before.direct = <<Atom(<<0, 0, 0>>, "X"), Atom(<<0, 0, Far>>, "X")>>
    /\ boundary_radius = FracDen \div 100
    /\ min_dist_dict = from_gbconf_file(<<<<"X", "X", 2 * FracDen>>>>)
    /\ UnsafeFacePair(1)
    /\ ret.n = 1
    /\ Len(cartesian) = 1

\* C9: each removal pass (interface, face pair along any axis, corners) and
\* remove_collision as a whole only removes atoms: the atoms after the call
\* are a sub-multiset of the atoms before it, with their elements and
\* cartesian positions, and the atom count never increases.
C9_OnlyRemoves ==
    /\ (ret.fn \in {"interface", "surface_pair", "corners"} /\ err = "none") =>
          /\ SubMultiset(cartesian, before.cartesian)
          /\ Len(cartesian) <= Len(before.cartesian)
    /\ (ret.fn = "remove_collision" /\ pc = "returned") =>
          /\ SubMultiset(cartesian, rc_before.cartesian)
          /\ Len(cartesian) <= Len(rc_before.cartesian)

\* The atom at index i lies within boundary_radius of the interface plane or
\* of an outer face of the cell.
AtSeam(i) ==
    \/ on_iface_idx(Snapshot, boundary_radius)[i]
    \/ \E axis \in 1..3 :
          \/ on_btm_idx(Snapshot, boundary_radius, axis)[i]
          \/ on_top_idx(Snapshot, boundary_radius, axis)[i]

\* The translations to the neighbouring periodic images of the cell.
ImageShifts == {<<i, j, k>> : i \in {-1, 0, 1}, j \in {-1, 0, 1}, k \in {-1, 0, 1}}

\* The atoms at indexes i and j are safe relative to each other through
\* every periodic image.
SafeThroughImages(i, j) ==
    \A n \in ImageShifts :
        LET image == Atom(VAdd(cartesian[j].position,
                               VScale(FracDen, VecMat(n, coordinates))),
                          cartesian[j].element)
        IN  apart_by_safe_distance(min_dist_dict, cartesian[i], image)

\* C10: after remove_collision returns, no two surviving atoms that both lie
\* within boundary_radius of the interface plane or of an outer face are
\* unsafe relative to each other, opposite sides of the cell being compared
\* through the nearest periodic image, across a cell edge included.
C10_SeamsCollisionFree ==
    (ret.fn = "remove_collision" /\ pc = "returned") =>
        \A i \in 1..Len(cartesian) : \A j \in 1..Len(cartesian) :
            (i # j /\ AtSeam(i) /\ AtSeam(j)) => SafeThroughImages(i, j)

RECURSIVE SumOfCounts(_)
\* The sum of the counts the passes of s returned.
SumOfCounts(s) == IF Len(s) = 0 THEN 0 ELSE s[1].n + SumOfCounts(Tail(s))

\* C11: remove_collision runs interface, face pair along a, b, c, corners in
\* that order, each pass starting from the Structure the previous one left,
\* and returns the initial atom count minus the final atom count, which is
\* the sum of the counts the five passes returned.
C11_FixedOrderAndTotal ==
    (ret.fn = "remove_collision" /\ pc = "returned") =>
        /\ [k \in 1..Len(rc_passes) |-> <<rc_passes[k].fn, rc_passes[k].axis>>]
               = <<<<"interface", 0>>, <<"surface_pair", 1>>, <<"surface_pair", 2>>,
                   <<"surface_pair", 3>>, <<"corners", 0>>>>
        /\ rc_passes[1].from = rc_before
        /\ \A k \in 1..(Len(rc_passes) - 1) : rc_passes[k + 1].from = rc_passes[k].to
        /\ rc_passes[Len(rc_passes)].to = Snapshot
        /\ ret.n = Len(rc_before.cartesian) - Len(cartesian)
        /\ ret.n = SumOfCounts(rc_passes)

\* C11 witness: remove_collision returned after two of its passes removed
\* an atom each.
C11_Witness ==
    /\ ret.fn = "remove_collision"
    /\ pc = "returned"
    /\ ret.n = 2
    /\ \E j \in 1..Len(rc_passes) : \E k \in (j + 1)..Len(rc_passes) :
          rc_passes[j].n = 1 /\ rc_passes[k].n = 1

\* The index in dir_vecs of the first corner that selects the atom at index
\* i of st, or 0 when no corner selects it.
FirstCorner(st, radius, i) ==
    LET ks == {k \in 1..Len(dir_vecs) : corner_idx(st, radius, dir_vecs[k])[i]}
    IN  IF ks = {} THEN 0 ELSE CHOOSE k \in ks : \A l \in ks : k <= l

\* The candidates of the corner pass on st in the order they are tested:
\* corner after corner in the order of dir_vecs, the atoms of a corner in the
\* order of the array.
CornerCandidates(st, radius) ==
    LET atoms == [i \in 1..Len(st.cartesian) |->
                     [atom |-> st.cartesian[i],
                      corner |-> FirstCorner(st, radius, i)]]
        OfCorner(k) == SelectSeq(atoms, LAMBDA c : c.corner = k)
    IN  OfCorner(1) \o OfCorner(2) \o OfCorner(3) \o OfCorner(4) \o
        OfCorner(5) \o OfCorner(6) \o OfCorner(7) \o OfCorner(8)

\* The pool atom p as it is compared with a candidate of the corner k.
TranslatedTo(p, k, coords) ==
    Atom(VAdd(p.atom.position,
              VScale(FracDen, VecMat(VSub(dir_vecs[k], dir_vecs[p.corner]), coords))),
         p.atom.element)

RECURSIVE AcceptedOf(_, _, _, _, _)
\* The candidates from the j-th on that are accepted: those safe against
\* every candidate accepted before them, translated to their corner.
AcceptedOf(cands, j, pool, coords, tbl) ==
    IF j > Len(cands) THEN pool
    ELSE IF \A q \in 1..Len(pool) :
                apart_by_safe_distance(tbl,
                    TranslatedTo(pool[q], cands[j].corner, coords), cands[j].atom)
         THEN AcceptedOf(cands, j + 1, Append(pool, cands[j]), coords, tbl)
         ELSE AcceptedOf(cands, j + 1, pool, coords, tbl)

\* C16: the corner pass tests the candidates corner after corner in the
\* order of {0,1}^3 and accepts a candidate only if it is safe against every
\* atom accepted before, translated by (corner of the candidate - its own
\* corner) . lattice; every two accepted atoms are safe under that
\* translation; the Structure left holds the atoms no corner selected and
\* the accepted atoms at their stored positions, and no rejected candidate;
\* the count returned is the number of rejected candidates.
C16_CornerPool ==
    (ret.fn = "corners" /\ err = "none") =>
        LET cands == CornerCandidates(before, boundary_radius)
            pool  == AcceptedOf(cands, 1, <<>>, before.coordinates, min_dist_dict)
            rest  == SelectSeq([i \in 1..Len(before.cartesian) |->
                                   [atom |-> before.cartesian[i],
                                    corner |-> FirstCorner(before, boundary_radius, i)]],
                               LAMBDA c : c.corner = 0)
            left  == [i \in 1..Len(rest) |-> rest[i].atom] \o
                     [i \in 1..Len(pool) |-> pool[i].atom]
        IN  /\ cartesian = sort_by_element(left)
            /\ ret.n = Len(cands) - Len(pool)
            /\ Len(cands) > 0 => pool[1] = cands[1]
            /\ \A q \in 1..Len(pool) : \A j \in (q + 1)..Len(pool) :
                  apart_by_safe_distance(min_dist_dict,
                      TranslatedTo(pool[q], pool[j].corner, before.coordinates),
                      pool[j].atom)
            /\ SubMultiset(cartesian, before.cartesian)

\* C16 witness: X atoms at the corners (0,0,0) and (1,1,1) of the cubic cell
\* of side 10, X-X = 2.0, radius 0.01: the first is accepted, the second is
\* rejected against the first translated by one cell along every axis.
C16_Witness ==
    /\ ret.fn = "corners"
    /\ err = "none"
    /\ boundary_radius = FracDen \div 100
    /\ before.direct = <<Atom(<<0, 0, 0>>, "X"), Atom(<<Far, Far, Far>>, "X")>>
    /\ cartesian = <<Atom(<<0, 0, 0>>, "X")>>
    /\ ret.n = 1

-----------------------------------------------------------------------------
(* Claims about the consistency of a Structure. *)

\* The atoms of s are in the order of their elements.
SortedByElement(s) ==
    \A i \in 1..Len(s) : \A j \in (i + 1)..Len(s) :
        ElemRank(s[i].element) <= ElemRank(s[j].element)

\* The positions at which an operation on the Structure has returned.
ReturnedPositions ==
    {"struct_returned", "struct_returned_again", "done", "rc_pair_1", "rc_pair_2", "rc_pair_3",
     "rc_corners", "rc_return", "returned"}

=============================================================================
